---- MODULE Spec2Model ----
(***************************************************************************)
(* Timeseries pipeline of the Hoppe ETL: daily summary, reference data     *)
(* (ref_data), merge of hist_df / daily_df / current_df, gap records.      *)
(***************************************************************************)
EXTENDS Integers, Sequences, FiniteSets, TLC

VARIABLES day, store, refData, pc, pending, daily_df, hist_df, current_df,
          summary_df, tmpFile, gapsOut, status, result, db

vars == <<day, store, refData, pc, pending, daily_df, hist_df, current_df,
          summary_df, tmpFile, gapsOut, status, result, db>>

\* The caller's side of a run: the result of run_fabric_pipeline and what
\* its database step has stored.
nbvars == <<result, db>>

(* ------------------------------ bounds -------------------------------- *)
MaxDay == 4          \* calendar days of the pipeline specification
HistoryDays == 2     \* X: days kept in ref_data
MaxFresh == 1        \* readings of one fetch, pipeline over days
MergeFresh == 2      \* readings of one fetch, runs of one day
MergeHist == 1       \* rows of the previous day's summary, runs of one day
GapTs == 4           \* timestamps of the summaries given to the gap detection
GapRows == 4         \* rows of the summaries given to the gap detection
FetchRows == 2       \* readings of one ship's fetch, runs over several ships

(* ------------------------------ readings ------------------------------ *)
\* A missing signal value is stored as NULL.
None == -1

IsFalsy(v) == v = None \/ v = 0

IsAbsent(v) == v = None

Reading(imo, signal, ts, value) ==
    [imo |-> imo, signal |-> signal, ts |-> ts, value |-> value]

\* The key of a reading: ship, signal and time of the measurement.
Key(r) == <<r.imo, r.signal, r.ts>>

\* The entry itself, without the tag it was loaded with.
Entry(r) == Reading(r.imo, r.signal, r.ts, r.value)

Tag(seq, t) ==
    [i \in 1..Len(seq) |->
        [imo |-> seq[i].imo, signal |-> seq[i].signal, ts |-> seq[i].ts,
         value |-> seq[i].value, tag |-> t]]

Untag(seq) == [i \in 1..Len(seq) |-> Entry(seq[i])]

KeysOf(seq) == {Key(seq[i]) : i \in 1..Len(seq)}

EntriesOf(seq) == {Entry(seq[i]) : i \in 1..Len(seq)}

\* All sequences over S of length at most n.
SeqsUpTo(S, n) == UNION {[1..k -> S] : k \in 0..n}

\* What the timeseries API can return for one ship.
FreshSeqs(imo, signals, times, values, n) ==
    SeqsUpTo({Reading(imo, s, t, v) :
                 s \in signals, t \in times, v \in values}, n)

(* ------------------------- step 9: daily summary ----------------------- *)
RECURSIVE UniqueLast(_, _)
UniqueLast(seq, seen) ==
    IF seq = <<>> THEN <<>>
    ELSE LET r == seq[Len(seq)]
             front == SubSeq(seq, 1, Len(seq) - 1)
         IN IF Entry(r) \in seen
               THEN UniqueLast(front, seen)
               ELSE UniqueLast(front, seen \cup {Entry(r)}) \o <<r>>

RECURSIVE UniqueAcrossShips(_, _)
UniqueAcrossShips(seq, seen) ==
    IF seq = <<>> THEN <<>>
    ELSE LET r == Head(seq)
             e == <<r.signal, r.ts, r.value>>
         IN IF e \in seen
               THEN UniqueAcrossShips(Tail(seq), seen)
               ELSE <<r>> \o UniqueAcrossShips(Tail(seq), seen \cup {e})

RECURSIVE UniqueFirst(_, _)
\* Keeps of equal entries the one that appears first.
UniqueFirst(seq, seen) ==
    IF seq = <<>> THEN <<>>
    ELSE LET r == Head(seq) IN
         IF Entry(r) \in seen
            THEN UniqueFirst(Tail(seq), seen)
            ELSE <<r>> \o UniqueFirst(Tail(seq), seen \cup {Entry(r)})

KeepsEveryTag(r) == TRUE

HasNewOrToday(r) == r.tag \in {"new", "today"}

MergeNewFirst(hist, daily, current) ==
    SelectSeq(UniqueFirst(current \o daily \o hist, {}), HasNewOrToday)

MergeNoUnique(hist, daily, current) ==
    SelectSeq(hist \o daily \o current, HasNewOrToday)

MergeSummary(hist, daily, current) ==
    SelectSeq(UniqueFirst(hist \o daily \o current, {}), HasNewOrToday)

(* --------------------------- daily summary store ----------------------- *)
NoPartition == [exists |-> FALSE, recs |-> <<>>]

Partition(recs) == [exists |-> TRUE, recs |-> recs]

\* Step 4: the current daily summary, empty when there is no file yet.
ReadDaily(st, d) == IF st[d].exists THEN st[d].recs ELSE <<>>

(* ------------------------- step 5: reference data ---------------------- *)
DaysOf(w) == {w[i].day : i \in 1..Len(w)}

AddLastDayAgain(w, d, st) ==
    IF d > 1 /\ st[d - 1].exists
       THEN Append(w, [day |-> d - 1, recs |-> st[d - 1].recs])
       ELSE w

\* Adds the last day's summary to the window unless it is already there.
AddLastDay(w, d, st) ==
    IF d > 1 /\ st[d - 1].exists /\ (d - 1) \notin DaysOf(w)
       THEN Append(w, [day |-> d - 1, recs |-> st[d - 1].recs])
       ELSE w

InLastDays(p, d) == p.day >= d - HistoryDays

RemoveNone(w, d) == w

\* Removes the days older than the last X days.
RemoveOldest(w, d) == SelectSeq(w, LAMBDA p : InLastDays(p, d))

\* ref_data after the update: only the last X days, the last day added.
RotateRef(w, d, st) == RemoveOldest(AddLastDay(w, d, st), d)

RECURSIVE Flatten(_)
\* Step 6: the rows of all days of ref_data, oldest day first.
Flatten(w) == IF w = <<>> THEN <<>> ELSE Head(w).recs \o Flatten(Tail(w))

(* ------------------------------ gap detection -------------------------- *)
MkGapEndIsStart(imo, signal, first, last, ld) ==
    [imo |-> imo, signal |-> signal, gap_start |-> first, gap_end |-> first,
     loaddate |-> ld]

\* A row of TimeSeries_Gaps.
MkGap(imo, signal, first, last, ld) ==
    [imo |-> imo, signal |-> signal, gap_start |-> first, gap_end |-> last,
     loaddate |-> ld]

\* Marks that the scan is not inside a run of missing values.
NoRun == 0

RECURSIVE InsertByTs(_, _)
InsertByTs(sorted, r) ==
    IF sorted = <<>> THEN <<r>>
    ELSE IF r.ts < Head(sorted).ts THEN <<r>> \o sorted
    ELSE <<Head(sorted)>> \o InsertByTs(Tail(sorted), r)

RECURSIVE SortByTs(_)
\* The rows sorted by timestamp ascending.
SortByTs(seq) ==
    IF seq = <<>> THEN <<>>
    ELSE InsertByTs(SortByTs(SubSeq(seq, 1, Len(seq) - 1)), seq[Len(seq)])

SeriesOf(rows, imo, signal) ==
    SortByTs(SelectSeq(rows, LAMBDA r : r.imo = imo /\ r.signal = signal))

CloseRun(imo, signal, first, last, ld) ==
    IF first = NoRun THEN {} ELSE {MkGap(imo, signal, first, last, ld)}

RECURSIVE ScanRuns(_, _, _, _, _, _)
\* Scans one sorted series; first/last are the bounds of the open run.
ScanRuns(series, first, last, imo, signal, ld) ==
    IF series = <<>> THEN CloseRun(imo, signal, first, last, ld)
    ELSE LET r == Head(series) IN
         IF IsAbsent(r.value)
            THEN ScanRuns(Tail(series), IF first = NoRun THEN r.ts ELSE first,
                          r.ts, imo, signal, ld)
            ELSE CloseRun(imo, signal, first, last, ld)
                 \cup ScanRuns(Tail(series), NoRun, NoRun, imo, signal, ld)

GapDetector(rows, ld) ==
    UNION {ScanRuns(SeriesOf(rows, k[1], k[2]), NoRun, NoRun, k[1], k[2], ld) :
             k \in {<<rows[i].imo, rows[i].signal>> : i \in 1..Len(rows)}}

(* ------------------------------ the pipeline --------------------------- *)
\* Nothing has been stored to the database.
NoLoad == [loaded |-> FALSE, day |-> 0, recs |-> <<>>]

Vessels == {1}

Signals == {1}

\* The measurement time of the readings of the pipeline over days.
DayTimes == {1}

\* The measurement times of the readings of the runs of one day.
MergeTimes == {1, 2}

\* Missing or a measured value.
SignalValues == {None, 1}

NoLocals ==
    /\ pending' = {}
    /\ daily_df' = <<>>
    /\ hist_df' = <<>>
    /\ current_df' = <<>>
    /\ summary_df' = <<>>

Init ==
    /\ day = 1
    /\ store = [d \in 1..MaxDay |-> NoPartition]
    /\ refData = <<>>
    /\ pc = "idle"
    /\ pending = {}
    /\ daily_df = <<>>
    /\ hist_df = <<>>
    /\ current_df = <<>>
    /\ summary_df = <<>>
    /\ tmpFile = <<>>
    /\ gapsOut = {}
    /\ status = "none"
    /\ result = "none"
    /\ db = NoLoad

\* Steps 2 and 4 to 7 of a run.
StartRun(imos) ==
    /\ pc = "idle"
    /\ daily_df' = Tag(ReadDaily(store, day), "today")
    /\ refData' = IF daily_df' = <<>> THEN RotateRef(refData, day, store)
                                      ELSE refData
    /\ hist_df' = Tag(Flatten(refData'), "old")
    /\ current_df' = <<>>
    /\ summary_df' = <<>>
    /\ pending' = imos
    /\ pc' = "fetch"
    /\ status' = "running"
    /\ UNCHANGED <<day, store, tmpFile, gapsOut>>
    /\ UNCHANGED nbvars

\* Step 8 for one ship; an empty seq is a ship whose fetch failed.
FetchVessel(v, seq) ==
    /\ pc = "fetch"
    /\ v \in pending
    /\ current_df' = current_df \o Tag(seq, "new")
    /\ pending' = pending \ {v}
    /\ UNCHANGED <<day, store, refData, pc, daily_df, hist_df, summary_df,
                   tmpFile, gapsOut, status>>
    /\ UNCHANGED nbvars

\* Step 9.
CreateSummary ==
    /\ pc = "fetch"
    /\ pending = {}
    /\ summary_df' = MergeSummary(hist_df, daily_df, current_df)
    /\ pc' = "write"
    /\ UNCHANGED <<day, store, refData, pending, daily_df, hist_df,
                   current_df, tmpFile, gapsOut, status>>
    /\ UNCHANGED nbvars

\* Step 10, write-new-then-replace: a new file is started,
BeginWrite ==
    /\ pc = "write"
    /\ tmpFile' = <<>>
    /\ pc' = "writing"
    /\ UNCHANGED <<day, store, refData, pending, daily_df, hist_df,
                   current_df, summary_df, gapsOut, status>>
    /\ UNCHANGED nbvars

\* the rows are written to it one after the other,
WriteRow ==
    /\ pc = "writing"
    /\ Len(tmpFile) < Len(summary_df)
    /\ tmpFile' = Append(tmpFile, Untag(summary_df)[Len(tmpFile) + 1])
    /\ UNCHANGED <<day, store, refData, pc, pending, daily_df, hist_df,
                   current_df, summary_df, gapsOut, status>>
    /\ UNCHANGED nbvars

WriteStarted == TRUE

WriteComplete == Len(tmpFile) = Len(summary_df)

AppendedPartition(old, new) == Partition(old.recs \o new)

\* The day's file after the write: the new content, whatever was there.
WrittenPartition(old, new) == Partition(new)

\* and the complete file becomes the day's file, new or overwritten.
SaveSummary ==
    /\ pc = "writing"
    /\ WriteComplete
    /\ store' = [store EXCEPT ![day] = WrittenPartition(store[day], tmpFile)]
    /\ tmpFile' = <<>>
    /\ pc' = "gaps"
    /\ UNCHANGED <<day, refData, pending, daily_df, hist_df, current_df,
                   summary_df, gapsOut, status>>
    /\ UNCHANGED nbvars

\* The gaps of the run, from the summary just saved.
DetectGaps ==
    /\ pc = "gaps"
    /\ gapsOut' = GapDetector(summary_df, day)
    /\ pc' = "idle"
    /\ status' = "success"
    /\ NoLocals
    /\ UNCHANGED <<day, store, refData, tmpFile>>
    /\ UNCHANGED nbvars

\* The process dies during a run; the files stay as they are.
Crash ==
    /\ pc # "idle"
    /\ pc' = "idle"
    /\ status' = "crashed"
    /\ NoLocals
    /\ UNCHANGED <<day, store, refData, tmpFile, gapsOut>>
    /\ UNCHANGED nbvars

NextDay ==
    /\ pc = "idle"
    /\ day < MaxDay
    /\ day' = day + 1
    /\ UNCHANGED <<store, refData, pc, pending, daily_df, hist_df, current_df,
                   summary_df, tmpFile, gapsOut, status>>
    /\ UNCHANGED nbvars

Next ==
    \/ StartRun(Vessels)
    \/ \E v \in Vessels : \E seq \in FreshSeqs(v, Signals, DayTimes, SignalValues, MaxFresh) :
          FetchVessel(v, seq)
    \/ CreateSummary
    \/ BeginWrite
    \/ WriteRow
    \/ SaveSummary
    \/ DetectGaps
    \/ Crash
    \/ NextDay

Spec == Init /\ [][Next]_vars

(* -------------------- runs of one day on given history ------------------ *)
RECURSIVE DistinctEntries(_)
DistinctEntries(seq) ==
    \/ seq = <<>>
    \/ /\ Head(seq) \notin EntriesOf(Tail(seq))
       /\ DistinctEntries(Tail(seq))

\* The summaries a day can have left behind: no entry twice.
HistInputs ==
    {h \in FreshSeqs(1, Signals, MergeTimes, SignalValues, MergeHist) :
        DistinctEntries(h)}

\* Day 2 before its first run, day 1 having left the summary h.
InitMerge ==
    \E h \in HistInputs :
        /\ day = 2
        /\ store = [d \in 1..MaxDay |-> IF d = 1 THEN Partition(h)
                                                 ELSE NoPartition]
        /\ refData = <<>>
        /\ pc = "idle"
        /\ pending = {}
        /\ daily_df = <<>>
        /\ hist_df = <<>>
        /\ current_df = <<>>
        /\ summary_df = <<>>
        /\ tmpFile = <<>>
        /\ gapsOut = {}
        /\ status = "success"
        /\ result = "none"
        /\ db = NoLoad

NextMerge ==
    \/ StartRun(Vessels)
    \/ \E v \in Vessels :
         \E seq \in FreshSeqs(v, Signals, MergeTimes, SignalValues, MergeFresh) :
            FetchVessel(v, seq)
    \/ CreateSummary
    \/ BeginWrite
    \/ WriteRow
    \/ SaveSummary
    \/ DetectGaps
    \/ Crash

SpecMerge == InitMerge /\ [][NextMerge]_vars

(* --------------------- gap detection on given summaries ----------------- *)
GapVessels == {1, 2}

\* Missing, zero or a measured value.
GapValues == {None, 0, 1}

GapRowSet ==
    {Reading(v, sg, t, x) :
        v \in GapVessels, sg \in Signals, t \in 1..GapTs, x \in GapValues}

RowRank(r) == ((r.imo * 100 + r.signal) * 100 + r.ts) * 100 + r.value

RECURSIVE RowsOf(_, _)
\* The rows R by ascending or descending ship, signal, time and value.
RowsOf(R, asc) ==
    IF R = {} THEN <<>>
    ELSE LET r == CHOOSE x \in R :
                     \A y \in R : IF asc THEN RowRank(x) <= RowRank(y)
                                         ELSE RowRank(x) >= RowRank(y)
         IN <<r>> \o RowsOf(R \ {r}, asc)

\* Day 1, a first run that has saved its summary and now detects the gaps.
RECURSIVE SubsetsUpTo(_, _)
\* The subsets of S with at most n elements.
SubsetsUpTo(S, n) ==
    IF n = 0 THEN {{}}
    ELSE LET smaller == SubsetsUpTo(S, n - 1)
         IN smaller \cup {X \cup {x} : X \in smaller, x \in S}

InitGap ==
    \E R \in SubsetsUpTo(GapRowSet, GapRows) :
      \E asc \in BOOLEAN :
        /\ day = 1
        /\ store = [d \in 1..MaxDay |-> IF d = 1 THEN Partition(RowsOf(R, asc))
                                                 ELSE NoPartition]
        /\ refData = <<>>
        /\ pc = "gaps"
        /\ pending = {}
        /\ daily_df = <<>>
        /\ hist_df = <<>>
        /\ current_df = Tag(RowsOf(R, asc), "new")
        /\ summary_df = Tag(RowsOf(R, asc), "new")
        /\ tmpFile = <<>>
        /\ gapsOut = {}
        /\ status = "running"
        /\ result = "none"
        /\ db = NoLoad

NextGap == DetectGaps

SpecGap == InitGap /\ [][NextGap]_vars

(* ------------------- runs of one day over several ships ----------------- *)
FetchVessels == {1, 2}

\* The ships are processed in parallel: each ship of the run adds its readings
\* to current_df when its fetch is done, in whatever order the ships finish.
NextFetch ==
    \/ StartRun(FetchVessels)
    \/ \E v \in FetchVessels :
         \E seq \in FreshSeqs(v, Signals, DayTimes, SignalValues, FetchRows) :
            FetchVessel(v, seq)
    \/ CreateSummary
    \/ BeginWrite
    \/ WriteRow
    \/ SaveSummary
    \/ DetectGaps

SpecFetch == InitMerge /\ [][NextFetch]_vars

(* -------------------------- run_fabric_pipeline ------------------------- *)
\* What process_and_store_to_db has stored: the data of the run of day d.
Load(d, recs) == [loaded |-> TRUE, day |-> d, recs |-> recs]

\* run_fabric_pipeline is entered: storage, secrets, configuration. An
\* exception of these steps is caught and gives the result "error".
RunFabricPipeline(secretsOk) ==
    /\ pc = "idle"
    /\ result # "pending"
    /\ result' = IF secretsOk THEN "pending" ELSE "error"
    /\ status' = "none"
    /\ UNCHANGED <<day, store, refData, pc, pending, daily_df, hist_df,
                   current_df, summary_df, tmpFile, gapsOut, db>>

\* pipeline.run(mode) is called.
PipelineRun ==
    /\ result = "pending"
    /\ status = "none"
    /\ StartRun(Vessels)

\* The write of the day's summary fails: the run ends, marked failed, and
\* the failure goes to the caller as an exception of pipeline.run.
WriteFails ==
    /\ pc \in {"write", "writing"}
    /\ pc' = "idle"
    /\ status' = "failed"
    /\ NoLocals
    /\ UNCHANGED <<day, store, refData, tmpFile, gapsOut>>
    /\ UNCHANGED nbvars

PipelineEnded == pc = "idle" /\ status \in {"success", "failed"}

\* pipeline.run has returned run_timestamp.
PipelineReturned == pc = "idle" /\ status = "success"

\* pipeline.run has raised an exception.
PipelineRaised == pc = "idle" /\ status = "failed"

\* After pipeline.run: the database step if a connection is configured (a
\* failure of it is only logged), then the result "success".
StoreAndReturn(dbConfigured, dbOk) ==
    /\ result = "pending"
    /\ PipelineReturned
    /\ db' = IF dbConfigured /\ dbOk THEN Load(day, ReadDaily(store, day))
                                      ELSE db
    /\ result' = "success"
    /\ UNCHANGED <<day, store, refData, pc, pending, daily_df, hist_df,
                   current_df, summary_df, tmpFile, gapsOut, status>>

\* The except branch: the result "error"; the database step is skipped.
ReturnError ==
    /\ result = "pending"
    /\ PipelineRaised
    /\ result' = "error"
    /\ UNCHANGED <<day, store, refData, pc, pending, daily_df, hist_df,
                   current_df, summary_df, tmpFile, gapsOut, status, db>>

NextNotebook ==
    \/ \E secretsOk \in BOOLEAN : RunFabricPipeline(secretsOk)
    \/ PipelineRun
    \/ \E v \in Vessels :
         \E seq \in FreshSeqs(v, Signals, MergeTimes, SignalValues, MaxFresh) :
            FetchVessel(v, seq)
    \/ CreateSummary
    \/ BeginWrite
    \/ WriteRow
    \/ WriteFails
    \/ SaveSummary
    \/ DetectGaps
    \/ \E dbConfigured, dbOk \in BOOLEAN : StoreAndReturn(dbConfigured, dbOk)
    \/ ReturnError

SpecNotebook == Init /\ [][NextNotebook]_vars

(* ------------------------------ properties ----------------------------- *)
\* The summary of the run has been created from the three frames, which the
\* run still holds.
Merged == pc \in {"write", "writing", "gaps"}

Inputs == hist_df \o daily_df \o current_df

RowsWithKey(seq, k) == SelectSeq(seq, LAMBDA r : Key(r) = k)

\* The position at which the entry e first occurs in seq.
FirstPos(seq, e) ==
    CHOOSE i \in 1..Len(seq) :
        /\ Entry(seq[i]) = e
        /\ \A j \in 1..(i - 1) : Entry(seq[j]) # e

OldOnly(r) == Key(r) \notin KeysOf(daily_df) \cup KeysOf(current_df)

\* C1 as stated: every key of the three frames has exactly one record in the
\* summary, the new one if the key has one, else today's, else the old one.
C1_OneRecordPerKey ==
    Merged =>
      \A k \in KeysOf(Inputs) :
        LET out == RowsWithKey(summary_df, k)
            want == IF k \in KeysOf(current_df) THEN "new"
                    ELSE IF k \in KeysOf(daily_df) THEN "today" ELSE "old"
        IN /\ Len(out) = 1
           /\ out[1].tag = want
           /\ \E i \in 1..Len(Inputs) : Inputs[i] = out[1]

\* C1 amended: the summary holds no old record; it holds every entry (key and
\* value) of today's summary and of the fetch that is not an entry of the
\* reference data, once, tagged today if today's summary has it and new
\* otherwise. So for a key in old and new with different values the summary
\* holds the new value and not the old one.
C1_EntryPrecedence ==
    Merged =>
      /\ \A i, j \in 1..Len(summary_df) :
            i # j => Entry(summary_df[i]) # Entry(summary_df[j])
      /\ EntriesOf(summary_df) =
            (EntriesOf(daily_df) \cup EntriesOf(current_df)) \ EntriesOf(hist_df)
      /\ \A i \in 1..Len(summary_df) :
            summary_df[i].tag =
               IF Entry(summary_df[i]) \in EntriesOf(daily_df) THEN "today"
                                                               ELSE "new"

\* A key in old and new with different values; the summary holds the new one.
C1_Witness ==
    /\ Merged
    /\ \E i \in 1..Len(hist_df), j \in 1..Len(current_df) :
         /\ Key(hist_df[i]) = Key(current_df[j])
         /\ hist_df[i].value # current_df[j].value
         /\ \E n \in 1..Len(summary_df) : summary_df[n] = current_df[j]

\* C2 as stated: a record whose key is only in the reference data is in the
\* summary with its value.
C2_OldOnlySurvives ==
    Merged =>
      \A i \in 1..Len(hist_df) :
        OldOnly(hist_df[i]) => Entry(hist_df[i]) \in EntriesOf(summary_df)

\* C2 amended: a key that is only in the reference data has no record in the
\* summary, no summary row is tagged old, and the record stays in ref_data
\* with its value.
C2_OldOnlyStaysInRefData ==
    Merged =>
      /\ \A i \in 1..Len(summary_df) : summary_df[i].tag # "old"
      /\ \A i \in 1..Len(hist_df) :
           OldOnly(hist_df[i]) =>
             /\ Key(hist_df[i]) \notin KeysOf(summary_df)
             /\ Entry(hist_df[i]) \in EntriesOf(Flatten(refData))

\* A run whose reference data has a key of its own and whose summary has rows.
C2_Witness ==
    /\ Merged
    /\ summary_df # <<>>
    /\ \E i \in 1..Len(hist_df) : OldOnly(hist_df[i])

\* C3 as stated: of several fetched records of one key the summary keeps the
\* one fetched last.
C3_LastWins ==
    Merged =>
      \A k \in KeysOf(current_df) :
        LET fetched == RowsWithKey(current_df, k)
        IN Len(fetched) >= 2 =>
             EntriesOf(RowsWithKey(summary_df, k)) =
                {Entry(fetched[Len(fetched)])}

\* C3 amended: of the fetched records of one key the summary keeps one per
\* value that is not stored yet (in ref_data or today's summary), the first
\* occurrence of each, in the order of the fetch; a later record neither
\* replaces an earlier one with another value nor is kept beside an equal one.
C3_FirstOccurrenceKept ==
    Merged =>
      LET stored == EntriesOf(hist_df) \cup EntriesOf(daily_df)
          isNew(i) == summary_df[i].tag = "new"
      IN /\ \A j \in 1..Len(current_df) :
               Entry(current_df[j]) \notin stored =>
                 Cardinality({i \in 1..Len(summary_df) :
                                 summary_df[i] = current_df[j]}) = 1
         /\ \A i \in 1..Len(summary_df) :
               isNew(i) => /\ Entry(summary_df[i]) \notin stored
                           /\ Entry(summary_df[i]) \in EntriesOf(current_df)
         /\ \A i, j \in 1..Len(summary_df) :
               (isNew(i) /\ isNew(j) /\ i < j) =>
                  FirstPos(current_df, Entry(summary_df[i]))
                     < FirstPos(current_df, Entry(summary_df[j]))

\* Two fetched records of one key with different values, both kept.
C3_Witness ==
    /\ Merged
    /\ \E i, j \in 1..Len(current_df) :
         /\ i < j
         /\ Key(current_df[i]) = Key(current_df[j])
         /\ current_df[i].value # current_df[j].value
         /\ {Entry(current_df[i]), Entry(current_df[j])}
               \subseteq EntriesOf(summary_df)

\* The summary the next run of the day creates when it reads the summary
\* written by this run and fetches the same readings again.
NextRunSummary ==
    MergeSummary(hist_df, Tag(Untag(summary_df), "today"), current_df)

\* C4: a second run of the day with the same fetched readings writes the
\* same daily summary: the same entries in the same order, none twice.
C4_Idempotent == Merged => Untag(NextRunSummary) = Untag(summary_df)

\* A run that found a summary of the day and added fetched rows to it.
C4_Witness ==
    /\ Merged
    /\ daily_df # <<>>
    /\ Len(current_df) >= 2
    /\ \E i \in 1..Len(summary_df) : summary_df[i].tag = "new"

\* A run has rotated ref_data today: it is under way or has saved a summary.
RotatedToday == pc # "idle" \/ store[day].exists

\* Each of the last X days has a summary, so each had a run and a rotation.
RanDaily ==
    /\ day > HistoryDays
    /\ \A k \in 1..HistoryDays : store[day - k].exists

C7_WriteOverwrites ==
    [][/\ (pc = "writing" /\ pc' = "gaps") =>
            /\ store'[day].exists
            /\ ReadDaily(store', day) = Untag(summary_df)
            /\ \A d \in 1..MaxDay : d # day => store'[d] = store[d]
       /\ \A d \in 1..MaxDay : ~store'[d].exists => ReadDaily(store', d) = <<>>
      ]_vars

\* A summary with more rows has replaced the day's earlier summary.
C7_Witness ==
    /\ pc = "gaps"
    /\ daily_df # <<>>
    /\ Len(summary_df) > Len(daily_df)
    /\ ReadDaily(store, day) = Untag(summary_df)

\* C8: no step, a crash included, leaves the day's file in another state
\* than the one before the step or the complete new summary.
C8_AtomicWrite ==
    [][\/ store'[day] = store[day]
       \/ /\ store'[day] = Partition(Untag(summary_df))
          /\ pc' = "gaps"
      ]_vars

\* A run has crashed with the new file half written; the day's file still
\* has its previous rows.
C8_Witness ==
    /\ pc = "idle"
    /\ status = "crashed"
    /\ tmpFile # <<>>
    /\ store[day].exists
    /\ store[day].recs # <<>>
    /\ Len(tmpFile) > Len(store[day].recs)

\* The (ship, signal) series of rows.
SeriesKeys(rows) == {<<rows[i].imo, rows[i].signal>> : i \in 1..Len(rows)}

\* The rows of one series by ascending timestamp, rows of one timestamp in
\* the order of the summary.
Ordered(rows, imo, signal) ==
    LET q == SelectSeq(rows, LAMBDA r : r.imo = imo /\ r.signal = signal)
        before(i, j) == q[i].ts < q[j].ts \/ (q[i].ts = q[j].ts /\ i < j)
        rank(i) == Cardinality({j \in 1..Len(q) : before(j, i)}) + 1
    IN [n \in 1..Len(q) |-> q[CHOOSE i \in 1..Len(q) : rank(i) = n]]

\* One gap per maximal run of rows without a value in each ordered series,
\* from the timestamp of the run's first row to that of its last row.
MaximalRunGaps(rows, ld) ==
    UNION {LET s == Ordered(rows, k[1], k[2])
               run(a, b) ==
                  /\ a <= b
                  /\ \A i \in a..b : s[i].value = None
                  /\ (a = 1 \/ s[a - 1].value # None)
                  /\ (b = Len(s) \/ s[b + 1].value # None)
           IN {[imo |-> k[1], signal |-> k[2], gap_start |-> s[a].ts,
                gap_end |-> s[b].ts, loaddate |-> ld] :
                  <<a, b>> \in {x \in (1..Len(s)) \X (1..Len(s)) :
                                   run(x[1], x[2])}} :
             k \in SeriesKeys(rows)}

\* The timestamp of row r lies in the gap g of r's series.
Covers(g, r) ==
    /\ g.imo = r.imo
    /\ g.signal = r.signal
    /\ g.gap_start <= r.ts
    /\ r.ts <= g.gap_end

GapsDone == pc = "idle" /\ status = "success" /\ store[day].exists

PerVessel(df, v) == SelectSeq(df, LAMBDA r : r.imo = v)

\* The orders in which the ships of a run can finish.
VesselOrders ==
    {o \in [1..Cardinality(FetchVessels) -> FetchVessels] :
        \A i, j \in DOMAIN o : i # j => o[i] # o[j]}

RECURSIVE InOrder(_, _)
\* current_df had the ships finished in the order o.
InOrder(df, o) ==
    IF o = <<>> THEN <<>> ELSE PerVessel(df, Head(o)) \o InOrder(df, Tail(o))

RowsOfSeq(seq) == {seq[i] : i \in 1..Len(seq)}

\* C11: the summary is created only when every ship of the run has added its
\* readings (a failed ship none); in whatever order the ships finished, the
\* summary has the same rows with the same tags, and the rows of each ship
\* in the same order.
C11_CompletionOrderIrrelevant ==
    Merged =>
      /\ pending = {}
      /\ \E o \in VesselOrders : current_df = InOrder(current_df, o)
      /\ \A o \in VesselOrders :
            LET other == MergeSummary(hist_df, daily_df, InOrder(current_df, o))
            IN /\ RowsOfSeq(other) = RowsOfSeq(summary_df)
               /\ Len(other) = Len(summary_df)
               /\ \A v \in FetchVessels :
                     PerVessel(other, v) = PerVessel(summary_df, v)

\* Ship 2 finished before ship 1, ship 1 delivered two readings of one time,
\* and readings of both ships are in the summary.
C11_Witness ==
    /\ Merged
    /\ Len(PerVessel(current_df, 1)) = 2
    /\ \E i, j \in 1..Len(current_df) :
         /\ i < j
         /\ current_df[i].imo = 2
         /\ current_df[j].imo = 1
         /\ {current_df[i], current_df[j]} \subseteq RowsOfSeq(summary_df)
         /\ current_df[i].value = current_df[j].value

\* C12: a failed write of the day's summary ends the run marked failed, with
\* the day's file and the gaps as they were; gaps are emitted only from a
\* summary whose write is confirmed; a call in which pipeline.run raised
\* ends with the result "error" and without the database step, and only a
\* call whose pipeline.run returned stores to the database or ends with
\* the result "success".
C12_WriteFailureFatal ==
    [][/\ (pc \in {"write", "writing"} /\ pc' \notin {"writing", "gaps"}) =>
            /\ pc' = "idle"
            /\ status' = "failed"
            /\ store' = store
            /\ gapsOut' = gapsOut
            /\ result' = "pending"
            /\ db' = db
       /\ gapsOut' # gapsOut =>
            /\ pc = "gaps"
            /\ status # "failed"
            /\ ReadDaily(store, day) = Untag(summary_df)
       /\ (status = "failed" /\ result = "pending") =>
            \/ UNCHANGED vars
            \/ result' = "error" /\ db' = db /\ gapsOut' = gapsOut
                  /\ status' = "failed"
       /\ (db' # db \/ (result' = "success" /\ result # "success")) =>
            /\ status = "success"
            /\ result = "pending"
            /\ result' = "success"
      ]_vars

\* A call whose write failed with the new file half written, after an
\* earlier call that stored to the database: the result is "error", and
\* the day's file, the gaps and the database are those of the earlier call.
C12_Witness ==
    /\ result = "error"
    /\ status = "failed"
    /\ tmpFile # <<>>
    /\ Len(tmpFile) > Len(ReadDaily(store, day))
    /\ db = Load(day, ReadDaily(store, day))
    /\ db.recs # <<>>
    /\ gapsOut # {}

====
